---- MODULE Spec2Model ----
(***************************************************************************)
(* go-allegro, allegro/shader.go: the Go wrapper around Allegro's shader   *)
(* API.  The Go functions are modelled one action each; the native         *)
(* library (the al_ calls of cgo) is the environment: a call is recorded   *)
(* with the arguments the Go code passed; its boolean result, its log     *)
(* text and the allocator's outcomes are chosen nondeterministically.      *)
(***************************************************************************)
EXTENDS Integers, Sequences, FiniteSets, TLC

\* ---------------------------------------------------------------- bounds
MaxShaders == 1     \* native shader objects that can ever be created
MaxRows == 2        \* rows of a vector-uniform input
MaxCols == 2        \* components of one row

VARIABLES
    shaders,        \* native: handle -> [status, log, built]
    active,         \* native: the shader al_use_shader made current, or NULL
    heap,           \* native allocator: blocks malloc'ed / CString'ed and not freed
    crashed,        \* the process died on undefined behaviour
    last,           \* the Go call that ran last: its arguments (and what malloc
                    \* answered it), its results, the native calls it made
    nativeTouched,  \* the native library has been called at least once
    onlyNullOps,    \* every Go call so far was a Shader method on a nil receiver
    arg             \* SpecVec: the [kind, name, v] its caller binds

vars == <<shaders, active, heap, crashed, last, nativeTouched, onlyNullOps, arg>>

\* ------------------------------------------------------------ Go values
\* nil pointer (*Shader, *Bitmap, *Transform, unsafe.Pointer)
NULL == 0

\* error values: nil, or an error carrying its text
nil == [isNil |-> TRUE, msg |-> ""]
ErrorsNew(msg) == [isNil |-> FALSE, msg |-> msg]

ShaderIsNull == ErrorsNew("shader is null")
BitmapIsNull == ErrorsNew("bitmap is null")

\* A Go int is 64 bits wide and a C int 32: the Go int q * 2^32 + r, with r in
\* -2^31 .. 2^31-1, is held as [q, r]; a C int is the plain number.
GoInt(q, r) == [q |-> q, r |-> r]
\* C.int(x): the conversion keeps the low 32 bits.
CInt(x) == x.r
\* C.float(x) of a float32: both are IEEE binary32, the value is kept.
CFloat(x) == x

\* C strings: a NULL char pointer, or the text before the terminating NUL.
CNullStr == [null |-> TRUE, chars |-> ""]
CString(s) == [null |-> FALSE, chars |-> s]
\* C.GoString: the text of a C string, "" for a NULL pointer.
GoString(c) == IF c.null THEN "" ELSE c.chars

\* ------------------------------------------------------------ input sets
Handles == 1..MaxShaders
Names == {"u", "al_tex"}
IntVals == {GoInt(0, 7), GoInt(1, 9)}      \* 7 and 2^32 + 9
FloatVals == {"0.5", "1.5"}
GarbageInt == -1                           \* what an unwritten C int cell may hold
GarbageFloat == "NaN"                      \* what an unwritten C float cell may hold
ShaderTypes == {"VERTEX_SHADER", "PIXEL_SHADER"}
ShaderPlatforms == {"SHADER_AUTO", "SHADER_GLSL", "SHADER_HLSL"}
LogTexts == {CNullStr, CString(""), CString("0:1: syntax error")}

RECURSIVE SeqsUpTo(_, _)
SeqsUpTo(S, n) ==
    IF n = 0 THEN {<<>>}
    ELSE LET shorter == SeqsUpTo(S, n - 1)
         IN  shorter \cup {Append(q, x) : q \in {p \in shorter : Len(p) = n - 1}, x \in S}

\* [][]int and [][]float32 arguments: up to MaxRows rows of up to MaxCols
\* components each, the rows not necessarily of one length.
Matrices(V) == SeqsUpTo(SeqsUpTo(V, MaxCols), MaxRows)
IntInputs == Matrices(IntVals)
FloatInputs == Matrices(FloatVals)
\* the inputs the lifecycle specification binds
SmallIntInputs == {<<>>, <<<<GoInt(0, 7)>>>>}
SmallFloatInputs == {<<>>, <<<<"0.5">>>>}

\* ------------------------------------------------------- native bookkeeping
\* A native call as the library sees it: the function, its arguments, what it
\* answered, and the shader that is current when it runs.
Call(fn, args, ans) == [fn |-> fn, args |-> args, ans |-> ans, prog |-> active]

\* malloc / C.CString hand out a block that is not in use.
NewBlock(h) == CHOOSE b \in 1..(Cardinality(h) + 1) : b \notin h
\* malloc(size): a fresh block, or nil when the allocator has none to give.
Malloc(h, ok) == IF ok THEN NewBlock(h) ELSE NULL
\* free(p) / freeString(p): the block goes back to the allocator.
Free(h, p) == h \ {p}

\* Faulty variant: only the name string is released, the scratch block leaks.
RunDeferredNameOnly(h, blocks) ==
    IF blocks = {} THEN h ELSE h \ {CHOOSE b \in blocks : \A c \in blocks : b <= c}

\* The deferred freeString(name_) / free(cmem) run when the function returns.
RunDeferred(h, blocks) == {b \in h : \A p \in blocks : b \in Free(h, p)}

\* What a Go call produced: its error, its other return value, the native
\* calls it made, its allocator traffic in order, and the heap it leaves.
Result(err, ret, calls, events, h) ==
    [err |-> err, ret |-> ret, calls |-> calls, events |-> events, heap |-> h,
     crashed |-> FALSE, written |-> 0, cap |-> 0]

\* name_ := C.CString(name); defer freeString(name_); one native call.
NamedCall(err, fn, args, ans) ==
    Result(err, "", <<Call(fn, args, ans)>>, <<"CString", "call", "freeString">>,
           RunDeferred(heap \cup {NewBlock(heap)}, {NewBlock(heap)}))

\* ------------------------------------------------- vector-uniform marshaling
\* The marshaling loop: for each row, for each element, garr[idx] = conv(elem),
\* idx++.  The sequence of values written, in the order of idx.
RECURSIVE MarshalRow(_, _)
MarshalRow(slice, kind) ==
    IF slice = <<>> THEN <<>>
    ELSE <<IF kind = "int" THEN CInt(Head(slice)) ELSE CFloat(Head(slice))>>
         \o MarshalRow(Tail(slice), kind)

\* Faulty variant: the rows are laid out last row first.
RECURSIVE MarshalLastRowFirst(_, _)
MarshalLastRowFirst(rows, kind) ==
    IF rows = <<>> THEN <<>>
    ELSE MarshalLastRowFirst(Tail(rows), kind) \o MarshalRow(Head(rows), kind)

RECURSIVE Marshal(_, _)
Marshal(rows, kind) ==
    IF rows = <<>> THEN <<>>
    ELSE MarshalRow(Head(rows), kind) \o Marshal(Tail(rows), kind)

VecFn(kind) == IF kind = "int" THEN "al_set_shader_int_vector" ELSE "al_set_shader_float_vector"
VecAllocError(kind) == ErrorsNew("failed to allocate " \o kind \o " vector")
VecSetError(kind, name) == ErrorsNew("failed to set " \o kind \o " vector for \"" \o name \o "\"")
Garbage(kind) == IF kind = "int" THEN GarbageInt ELSE GarbageFloat

\* Faulty variant: an empty input is treated as nothing to do.
SetShaderVectorEmptySkipped(kind, name, h1, name_, nativeOk) ==
    [err |-> nil, ret |-> "", calls |-> <<>>, events |-> <<"CString", "freeString">>,
     heap |-> RunDeferred(h1, {name_}),
     crashed |-> FALSE, written |-> 0, cap |-> 0]

\* The empty-input branch: the native call with 0, nil, 0.
SetShaderVectorEmpty(kind, name, h1, name_, nativeOk) ==
    [err |-> IF nativeOk THEN nil ELSE VecSetError(kind, name),
     ret |-> "",
     calls |-> <<Call(VecFn(kind),
                      [name |-> CString(name), components |-> 0, elems |-> 0,
                       ptr |-> NULL, live |-> FALSE, cells |-> <<>>], nativeOk)>>,
     events |-> <<"CString", "call", "freeString">>,
     heap |-> RunDeferred(h1, {name_}),
     crashed |-> FALSE, written |-> 0, cap |-> 0]

\* Faulty variant: the nil check is missing and the native call gets a nil buffer.
VecAllocFailedUnchecked(kind, name, h1, name_, cap) ==
    [err |-> VecSetError(kind, name), ret |-> "",
     calls |-> <<Call(VecFn(kind),
                      [name |-> CString(name), components |-> 0, elems |-> 0,
                       ptr |-> NULL, live |-> FALSE, cells |-> <<>>], FALSE)>>,
     events |-> <<"CString", "malloc-failed", "call", "freeString">>,
     heap |-> RunDeferred(h1, {name_}),
     crashed |-> FALSE, written |-> 0, cap |-> cap]

\* malloc returned nil: the error, before any native call.
VecAllocFailed(kind, name, h1, name_, cap) ==
    [err |-> VecAllocError(kind), ret |-> "", calls |-> <<>>,
     events |-> <<"CString", "malloc-failed", "freeString">>,
     heap |-> RunDeferred(h1, {name_}),
     crashed |-> FALSE, written |-> 0, cap |-> cap]

\* The non-empty branch: malloc, the marshaling loop, the native call, the
\* deferred free and freeString.  Writes past the block are undefined
\* behaviour: the process may die there (crash) or go on.
SetShaderVectorFill(kind, name, v, h1, name_, allocOk, nativeOk, crash) ==
    LET elems == Len(v)
        components == Len(v[1])
        cap == elems * components
        cmem == Malloc(h1, allocOk)
        h2 == IF cmem # NULL THEN h1 \cup {cmem} ELSE h1
        w == Marshal(v, kind)
        cells == [k \in 1..cap |-> IF k <= Len(w) THEN w[k] ELSE Garbage(kind)]
    IN  IF cmem = NULL
        THEN VecAllocFailed(kind, name, h1, name_, cap)
        ELSE IF Len(w) > cap /\ crash
        THEN [err |-> nil, ret |-> "", calls |-> <<>>,
              events |-> <<"CString", "malloc">>, heap |-> h2,
              crashed |-> TRUE, written |-> Len(w), cap |-> cap]
        ELSE [err |-> IF nativeOk THEN nil ELSE VecSetError(kind, name),
              ret |-> "",
              calls |-> <<Call(VecFn(kind),
                               [name |-> CString(name), components |-> components,
                                elems |-> elems, ptr |-> cmem, live |-> cmem \in h2,
                                cells |-> cells], nativeOk)>>,
              events |-> <<"CString", "malloc", "call", "free", "freeString">>,
              heap |-> RunDeferred(h2, {cmem, name_}),
              crashed |-> FALSE, written |-> Len(w), cap |-> cap]

\* SetShaderIntVector / SetShaderFloatVector (kind "int" / "float").
SetShaderVectorRun(kind, name, v, allocOk, nativeOk, crash) ==
    LET name_ == NewBlock(heap)
        h1 == heap \cup {name_}
    IN  IF Len(v) = 0
        THEN SetShaderVectorEmpty(kind, name, h1, name_, nativeOk)
        ELSE SetShaderVectorFill(kind, name, v, h1, name_, allocOk, nativeOk, crash)

\* ------------------------------------------------- Shader methods (pure part)
\* Each operator is the Go function on its arguments and on what the native
\* call it makes answers; the native state it changes is in the action.

\* CreateShader; h is the handle al_create_shader returned.
CreateShaderRun(platform, h) ==
    Result(IF h = NULL THEN ErrorsNew("failed to create shader") ELSE nil, h,
           <<Call("al_create_shader", [platform |-> platform], h)>>, <<"call">>, heap)

AttachSourceRun(s, stype, source, ok) ==
    IF s = NULL
    THEN Result(ShaderIsNull, "", <<>>, <<>>, heap)
    ELSE NamedCall(IF ok THEN nil ELSE ErrorsNew("failed to attach shader source"),
                   "al_attach_shader_source",
                   [shader |-> s, type |-> stype, text |-> CString(source)], ok)

AttachSourceFileRun(s, stype, filename, ok) ==
    IF s = NULL
    THEN Result(ShaderIsNull, "", <<>>, <<>>, heap)
    ELSE NamedCall(IF ok THEN nil
                   ELSE ErrorsNew("failed to attach shader source file \"" \o filename \o "\""),
                   "al_attach_shader_source_file",
                   [shader |-> s, type |-> stype, text |-> CString(filename)], ok)

\* Faulty variant: Build without its nil check.
BuildRunUnguarded(s, ok) ==
    Result(IF ok THEN nil ELSE ErrorsNew("failed to build shader"), "",
           <<Call("al_build_shader", [shader |-> s], ok)>>, <<"call">>, heap)

BuildRun(s, ok) ==
    IF s = NULL
    THEN Result(ShaderIsNull, "", <<>>, <<>>, heap)
    ELSE Result(IF ok THEN nil ELSE ErrorsNew("failed to build shader"), "",
                <<Call("al_build_shader", [shader |-> s], ok)>>, <<"call">>, heap)

\* Faulty variant: Log queries the native log and returns no text.
LogRunDropsText(s, log) ==
    IF s = NULL
    THEN Result(ShaderIsNull, "", <<>>, <<>>, heap)
    ELSE Result(nil, "", <<Call("al_get_shader_log", [shader |-> s], log)>>, <<"call">>, heap)

\* log is the char pointer al_get_shader_log returned.
LogRun(s, log) ==
    IF s = NULL
    THEN Result(ShaderIsNull, "", <<>>, <<>>, heap)
    ELSE Result(nil, GoString(log),
                <<Call("al_get_shader_log", [shader |-> s], log)>>, <<"call">>, heap)

\* p is the platform al_get_shader_platform returned.
PlatformRun(s, p) ==
    IF s = NULL
    THEN Result(ShaderIsNull, 0, <<>>, <<>>, heap)
    ELSE Result(nil, p, <<Call("al_get_shader_platform", [shader |-> s], p)>>, <<"call">>, heap)

\* Faulty variant: UseShader(nil) is taken for nothing to do.
UseShaderRunSkipsNil(s, ok) ==
    IF s = NULL
    THEN Result(nil, "", <<>>, <<>>, heap)
    ELSE Result(IF ok THEN nil ELSE ErrorsNew("failed to use shader"), "",
                <<Call("al_use_shader", [shader |-> s], ok)>>, <<"call">>, heap)

UseShaderRun(s, ok) ==
    Result(IF ok THEN nil ELSE ErrorsNew("failed to use shader"), "",
           <<Call("al_use_shader", [shader |-> s], ok)>>, <<"call">>, heap)

DestroyRun(s) ==
    Result(nil, "", <<Call("al_destroy_shader", [shader |-> s], TRUE)>>, <<"call">>, heap)

\* ------------------------------------------------- uniform binders (pure part)
SetError(what, name) == ErrorsNew("failed to set shader " \o what \o " for \"" \o name \o "\"")

\* Faulty variant: the sampler binder without its nil check.
SetShaderSamplerRunUnguarded(name, bmp, unit, ok) ==
    NamedCall(IF ok THEN nil ELSE SetError("sampler", name),
              "al_set_shader_sampler",
              [name |-> CString(name), value |-> bmp, unit |-> CInt(unit)], ok)

SetShaderSamplerRun(name, bmp, unit, ok) ==
    IF bmp = NULL
    THEN Result(BitmapIsNull, "", <<>>, <<>>, heap)
    ELSE NamedCall(IF ok THEN nil ELSE SetError("sampler", name),
                   "al_set_shader_sampler",
                   [name |-> CString(name), value |-> bmp, unit |-> CInt(unit)], ok)

SetShaderMatrixRun(name, matrix, ok) ==
    NamedCall(IF ok THEN nil ELSE SetError("matrix", name),
              "al_set_shader_matrix", [name |-> CString(name), value |-> matrix], ok)

SetShaderIntRun(name, i, ok) ==
    NamedCall(IF ok THEN nil ELSE SetError("int", name),
              "al_set_shader_int", [name |-> CString(name), value |-> CInt(i)], ok)

SetShaderFloatRun(name, f, ok) ==
    NamedCall(IF ok THEN nil ELSE SetError("float", name),
              "al_set_shader_float", [name |-> CString(name), value |-> CFloat(f)], ok)

SetShaderBoolRun(name, b, ok) ==
    NamedCall(IF ok THEN nil ELSE SetError("bool", name),
              "al_set_shader_bool", [name |-> CString(name), value |-> b], ok)

\* ------------------------------------------------------------------ state
NoArg == [kind |-> "int", name |-> "u", v |-> <<>>]
VecArgs ==
    [kind : {"int"}, name : Names, v : IntInputs]
    \cup [kind : {"float"}, name : Names, v : FloatInputs]

InitState ==
    /\ shaders = [h \in Handles |-> [status |-> "unborn", log |-> CNullStr, built |-> "none"]]
    /\ active = NULL
    /\ heap = {}
    /\ crashed = FALSE
    /\ last = [op |-> "none", args |-> [s |-> NULL], err |-> nil, ret |-> "",
               calls |-> <<>>, events |-> <<>>, activeBefore |-> NULL,
               written |-> 0, cap |-> 0]
    /\ nativeTouched = FALSE
    /\ onlyNullOps = TRUE

Init == InitState /\ arg = NoArg

InitVec == InitState /\ arg \in VecArgs

\* The current shader after the native calls of one Go call: al_use_shader
\* makes its argument current (when it fails the old one stays or none is
\* current: fallback), al_destroy_shader of the current shader leaves none.
RECURSIVE ActiveAfter(_, _, _)
ActiveAfter(cur, calls, fallback) ==
    IF calls = <<>> THEN cur
    ELSE LET c == Head(calls)
             nxt == IF c.fn = "al_use_shader"
                    THEN (IF c.ans THEN c.args.shader ELSE fallback)
                    ELSE IF c.fn = "al_destroy_shader" /\ c.args.shader = cur /\ cur # NULL
                    THEN NULL
                    ELSE cur
         IN  ActiveAfter(nxt, Tail(calls), fallback)

\* The Go call op(args) returned r (or died in it).
Return(op, args, r, nullOp) ==
    /\ last' = [op |-> op, args |-> args, err |-> r.err, ret |-> r.ret,
                calls |-> r.calls, events |-> r.events, activeBefore |-> active,
                written |-> r.written, cap |-> r.cap]
    /\ heap' = r.heap
    /\ crashed' = r.crashed
    /\ nativeTouched' = (nativeTouched \/ r.calls # <<>>)
    /\ onlyNullOps' = (onlyNullOps /\ nullOp)
    /\ UNCHANGED arg

\* a Go call that is not UseShader: a failing al_use_shader is not in play
Returns(op, args, r, nullOp) ==
    /\ Return(op, args, r, nullOp)
    /\ active' = ActiveAfter(active, r.calls, active)

\* Writing past the malloc'ed block is undefined behaviour: the run may die.
Overrun(kind, v) == v # <<>> /\ Len(Marshal(v, kind)) > Len(v) * Len(v[1])
MayCrash(undefined) == IF undefined THEN BOOLEAN ELSE {FALSE}
\* malloc is only reached for a non-empty input.
MayFail(v) == IF v = <<>> THEN {TRUE} ELSE BOOLEAN

SetShaderIntVector(name, v, allocOk, nativeOk, crash) ==
    /\ ~crashed
    /\ Returns("SetShaderIntVector", [name |-> name, v |-> v, mallocOk |-> allocOk],
              SetShaderVectorRun("int", name, v, allocOk, nativeOk, crash), FALSE)
    /\ UNCHANGED shaders

SetShaderFloatVector(name, v, allocOk, nativeOk, crash) ==
    /\ ~crashed
    /\ Returns("SetShaderFloatVector", [name |-> name, v |-> v, mallocOk |-> allocOk],
              SetShaderVectorRun("float", name, v, allocOk, nativeOk, crash), FALSE)
    /\ UNCHANGED shaders

\* ------------------------------------------------------- native shader state
Live(s) == s # NULL /\ shaders[s].status = "live"
\* a pointer the caller kept after Destroy: every use of it is undefined
Dangling(s) == s # NULL /\ shaders[s].status = "destroyed"
\* the *Shader values a caller can hold: nil and whatever CreateShader returned
Ptrs == {NULL} \cup {h \in Handles : shaders[h].status # "unborn"}
Unborn == {h \in Handles : shaders[h].status = "unborn"}
Died(r) == [r EXCEPT !.crashed = TRUE]
Outcome(r, crash) == IF crash THEN Died(r) ELSE r

CreateShader(platform, ok) ==
    LET h == IF ok /\ Unborn # {} THEN CHOOSE x \in Unborn : \A y \in Unborn : x <= y
             ELSE NULL
    IN  /\ ~crashed
        /\ Returns("CreateShader", [platform |-> platform], CreateShaderRun(platform, h), FALSE)
        /\ shaders' = IF h = NULL THEN shaders
                      ELSE [shaders EXCEPT ![h] = [status |-> "live", log |-> CString(""),
                                                   built |-> "none"]]

\* al_attach_shader_source(_file) compiles the stage and may rewrite the log.
AttachSource(s, stype, source, ok, lg, crash) ==
    /\ ~crashed
    /\ Returns("AttachSource", [s |-> s, stype |-> stype, text |-> source],
              Outcome(AttachSourceRun(s, stype, source, ok), crash), s = NULL)
    /\ shaders' = IF Live(s) THEN [shaders EXCEPT ![s].log = lg] ELSE shaders

AttachSourceFile(s, stype, filename, ok, lg, crash) ==
    /\ ~crashed
    /\ Returns("AttachSourceFile", [s |-> s, stype |-> stype, text |-> filename],
              Outcome(AttachSourceFileRun(s, stype, filename, ok), crash), s = NULL)
    /\ shaders' = IF Live(s) THEN [shaders EXCEPT ![s].log = lg] ELSE shaders

\* al_build_shader links the stages; it records its verdict and its log.
Build(s, ok, lg, crash) ==
    /\ ~crashed
    /\ Returns("Build", [s |-> s], Outcome(BuildRun(s, ok), crash), s = NULL)
    /\ shaders' = IF Live(s)
                  THEN [shaders EXCEPT ![s].log = lg,
                                       ![s].built = IF ok THEN "ok" ELSE "failed"]
                  ELSE shaders

\* al_get_shader_log answers the shader's log; anything for a freed shader.
Log(s, stale, crash) ==
    /\ ~crashed
    /\ Returns("Log", [s |-> s],
              Outcome(LogRun(s, IF Live(s) THEN shaders[s].log ELSE stale), crash), s = NULL)
    /\ UNCHANGED shaders

Platform(s, p, crash) ==
    /\ ~crashed
    /\ Returns("Platform", [s |-> s], Outcome(PlatformRun(s, p), crash), s = NULL)
    /\ UNCHANGED shaders

\* al_use_shader makes s current (none for NULL); when it fails the old shader
\* stays or none is current (fallback).
UseShader(s, ok, fallback, crash) ==
    /\ ~crashed
    /\ Return("UseShader", [s |-> s], Outcome(UseShaderRun(s, ok), crash), FALSE)
    /\ active' = ActiveAfter(active, UseShaderRun(s, ok).calls, fallback)
    /\ UNCHANGED shaders

\* al_destroy_shader frees the shader and stops using it; NULL is ignored.
Destroy(s, crash) ==
    /\ ~crashed
    /\ Returns("Destroy", [s |-> s], Outcome(DestroyRun(s), crash), FALSE)
    /\ shaders' = IF Live(s)
                  THEN [shaders EXCEPT ![s] = [status |-> "destroyed", log |-> CNullStr,
                                               built |-> "none"]]
                  ELSE shaders

\* ---------------------------------------------------------- uniform binders
Bitmaps == {NULL, 1}
Transforms == {NULL, 1}
Units == {GoInt(0, 0), GoInt(0, 1)}

SetShaderSampler(name, bmp, unit, ok, crash) ==
    /\ ~crashed
    /\ Returns("SetShaderSampler", [name |-> name, bmp |-> bmp, unit |-> unit],
              Outcome(SetShaderSamplerRun(name, bmp, unit, ok), crash), FALSE)
    /\ UNCHANGED shaders

SetShaderMatrix(name, matrix, ok, crash) ==
    /\ ~crashed
    /\ Returns("SetShaderMatrix", [name |-> name, value |-> matrix],
              Outcome(SetShaderMatrixRun(name, matrix, ok), crash), FALSE)
    /\ UNCHANGED shaders

SetShaderInt(name, i, ok, crash) ==
    /\ ~crashed
    /\ Returns("SetShaderInt", [name |-> name, value |-> i],
              Outcome(SetShaderIntRun(name, i, ok), crash), FALSE)
    /\ UNCHANGED shaders

SetShaderFloat(name, f, ok, crash) ==
    /\ ~crashed
    /\ Returns("SetShaderFloat", [name |-> name, value |-> f],
              Outcome(SetShaderFloatRun(name, f, ok), crash), FALSE)
    /\ UNCHANGED shaders

SetShaderBool(name, b, ok, crash) ==
    /\ ~crashed
    /\ Returns("SetShaderBool", [name |-> name, value |-> b],
              Outcome(SetShaderBoolRun(name, b, ok), crash), FALSE)
    /\ UNCHANGED shaders

\* The vector binders on the arguments of this run, with every outcome of
\* malloc and of the native call.
IntVectorCalls ==
    /\ arg.kind = "int"
    /\ \E allocOk \in MayFail(arg.v), nativeOk \in BOOLEAN, crash \in MayCrash(Overrun(arg.kind, arg.v)) :
        SetShaderIntVector(arg.name, arg.v, allocOk, nativeOk, crash)

FloatVectorCalls ==
    /\ arg.kind = "float"
    /\ \E allocOk \in MayFail(arg.v), nativeOk \in BOOLEAN, crash \in MayCrash(Overrun(arg.kind, arg.v)) :
        SetShaderFloatVector(arg.name, arg.v, allocOk, nativeOk, crash)

NextVec == IntVectorCalls \/ FloatVectorCalls

SpecVec == InitVec /\ [][NextVec]_vars

\* ------------------------------------------------------- the whole wrapper
Sources == {"void main(){}"}
Filenames == {"a.glsl"}

Next ==
    \/ \E platform \in ShaderPlatforms, ok \in BOOLEAN : CreateShader(platform, ok)
    \/ \E s \in Ptrs, stype \in ShaderTypes, source \in Sources, ok \in BOOLEAN,
          lg \in LogTexts :
       \E crash \in MayCrash(Dangling(s)) :
            AttachSource(s, stype, source, ok, lg, crash)
    \/ \E s \in Ptrs, stype \in ShaderTypes, filename \in Filenames, ok \in BOOLEAN,
          lg \in LogTexts :
       \E crash \in MayCrash(Dangling(s)) :
            AttachSourceFile(s, stype, filename, ok, lg, crash)
    \/ \E s \in Ptrs, ok \in BOOLEAN, lg \in LogTexts :
       \E crash \in MayCrash(Dangling(s)) :
            Build(s, ok, lg, crash)
    \/ \E s \in Ptrs, stale \in LogTexts :
       \E crash \in MayCrash(Dangling(s)) :
            Log(s, stale, crash)
    \/ \E s \in Ptrs, p \in ShaderPlatforms :
       \E crash \in MayCrash(Dangling(s)) :
            Platform(s, p, crash)
    \/ \E s \in Ptrs, ok \in BOOLEAN, fallback \in {active, NULL} :
       \E crash \in MayCrash(Dangling(s)) :
            UseShader(s, ok, fallback, crash)
    \/ \E s \in Ptrs :
       \E crash \in MayCrash(Dangling(s)) : Destroy(s, crash)
    \/ \E name \in Names, bmp \in Bitmaps, unit \in Units, ok \in BOOLEAN :
       \E crash \in MayCrash(Dangling(active) /\ bmp # NULL) :
            SetShaderSampler(name, bmp, unit, ok, crash)
    \/ \E name \in Names, matrix \in Transforms, ok \in BOOLEAN, crash \in MayCrash(Dangling(active)) :
            SetShaderMatrix(name, matrix, ok, crash)
    \/ \E name \in Names, i \in IntVals, ok \in BOOLEAN, crash \in MayCrash(Dangling(active)) :
            SetShaderInt(name, i, ok, crash)
    \/ \E name \in Names, f \in FloatVals, ok \in BOOLEAN, crash \in MayCrash(Dangling(active)) :
            SetShaderFloat(name, f, ok, crash)
    \/ \E name \in Names, b \in BOOLEAN, ok \in BOOLEAN, crash \in MayCrash(Dangling(active)) :
            SetShaderBool(name, b, ok, crash)
    \/ \E name \in Names, v \in SmallIntInputs :
       \E allocOk \in MayFail(v), nativeOk \in BOOLEAN :
            SetShaderIntVector(name, v, allocOk, nativeOk, FALSE)
    \/ \E name \in Names, v \in SmallFloatInputs :
       \E allocOk \in MayFail(v), nativeOk \in BOOLEAN :
            SetShaderFloatVector(name, v, allocOk, nativeOk, FALSE)

Spec == Init /\ [][Next]_vars

\* ------------------------------------------------------------ properties
VectorOps == {"SetShaderIntVector", "SetShaderFloatVector"}
BinderOps == VectorOps \cup {"SetShaderSampler", "SetShaderMatrix", "SetShaderInt",
                             "SetShaderFloat", "SetShaderBool"}
BinderFns == {"al_set_shader_int_vector", "al_set_shader_float_vector",
              "al_set_shader_sampler", "al_set_shader_matrix", "al_set_shader_int",
              "al_set_shader_float", "al_set_shader_bool"}
NullGuardedOps == {"AttachSource", "AttachSourceFile", "Build", "Log", "Platform"}

IsVecOp == last.op \in VectorOps
LastKind == IF last.op = "SetShaderIntVector" THEN "int" ELSE "float"
Rectangular(v) == \A r \in 1..Len(v) : Len(v[r]) = Len(v[1])
Has(events, e) == \E i \in 1..Len(events) : events[i] = e
\* the last call bound a rectangular input of N >= 1 rows and M >= 1 columns
\* and malloc gave it its scratch block
BoundRectangular ==
    /\ IsVecOp
    /\ Len(last.args.v) >= 1
    /\ Len(last.args.v[1]) >= 1
    /\ Rectangular(last.args.v)
    /\ last.args.mallocOk
\* the one native bind call, with M components, N elements and N*M cells
OneBindCall ==
    /\ Len(last.calls) = 1
    /\ last.calls[1].fn = VecFn(LastKind)
    /\ last.calls[1].args.components = Len(last.args.v[1])
    /\ last.calls[1].args.elems = Len(last.args.v)
    /\ Len(last.calls[1].args.cells) = Len(last.args.v) * Len(last.args.v[1])
\* the number a C int holds, as a Go int
IntOfC(c) == GoInt(0, c)
\* a native scalar read back as the Go value it stands for
AsGoValue(kind, c) == IF kind = "int" THEN IntOfC(c) ELSE c
\* a Go scalar converted to the native type
AsNative(kind, x) == IF kind = "int" THEN CInt(x) ELSE CFloat(x)

C4_EmptyInputBindsNil ==
    (IsVecOp /\ Len(last.args.v) = 0) =>
        /\ Len(last.calls) = 1
        /\ last.calls[1].fn = VecFn(LastKind)
        /\ last.calls[1].args.components = 0
        /\ last.calls[1].args.elems = 0
        /\ last.calls[1].args.ptr = NULL
        /\ last.calls[1].args.cells = <<>>
        /\ ~Has(last.events, "malloc")
        /\ ~Has(last.events, "malloc-failed")
        /\ (last.err = nil <=> last.calls[1].ans)
        /\ (~last.calls[1].ans => last.err = VecSetError(LastKind, last.args.name))

\* C4 reached: an empty float input bound with a nil buffer, the native call failing.
C4_Witness ==
    /\ last.op = "SetShaderFloatVector"
    /\ last.args.v = <<>>
    /\ Len(last.calls) = 1
    /\ last.calls[1].args.ptr = NULL
    /\ last.err = VecSetError("float", "al_tex")

\* C5: whenever no call is running, no block the binders allocated is
\* outstanding; and a call that malloc'ed its scratch block did so before the
\* native call, passed the block while it was allocated, and freed it after
\* the native call, whatever that call answered.
C5_ScratchIsCallScoped ==
    ~crashed =>
        /\ heap = {}
        /\ (IsVecOp /\ Has(last.events, "malloc")) =>
              /\ \E i, j, k \in 1..Len(last.events) :
                    /\ i < j /\ j < k
                    /\ last.events[i] = "malloc"
                    /\ last.events[j] = "call"
                    /\ last.events[k] = "free"
              /\ Len(last.calls) = 1
              /\ last.calls[1].args.live
              /\ last.calls[1].args.ptr # NULL

\* C5 reached: a scratch block freed after a native call that failed.
C5_Witness ==
    /\ last.op = "SetShaderIntVector"
    /\ Has(last.events, "malloc")
    /\ Has(last.events, "free")
    /\ ~last.calls[1].ans
    /\ last.err = VecSetError("int", last.args.name)
    /\ heap = {}

\* C6: when malloc fails for a non-empty input the binder returns the
\* allocation error, which is none of the bind-failure errors, and makes no
\* native call.
C6_AllocFailureBeforeNative ==
    (IsVecOp /\ Len(last.args.v) >= 1 /\ ~last.args.mallocOk) =>
        /\ last.err = VecAllocError(LastKind)
        /\ \A n \in Names, k \in {"int", "float"} : last.err # VecSetError(k, n)
        /\ last.calls = <<>>

\* C6 reached: malloc failing for a two-row float input.
C6_Witness ==
    /\ last.op = "SetShaderFloatVector"
    /\ Len(last.args.v) = 2
    /\ ~last.args.mallocOk
    /\ last.err = ErrorsNew("failed to allocate float vector")
    /\ last.calls = <<>>

\* C10 as stated: for every non-empty input, ragged ones included, the
\* marshaling loop writes no more than the N*M scalars that were allocated.
C10_WritesStayInBuffer ==
    (IsVecOp /\ Len(last.args.v) >= 1 /\ last.args.mallocOk) =>
        /\ last.cap = Len(last.args.v) * Len(last.args.v[1])
        /\ last.written <= last.cap

\* C2: AttachSource, AttachSourceFile, Build, Log and Platform on a nil
\* receiver return ShaderIsNull and make no native call; while only such
\* calls have been made, the native library has never been called.
C2_NullReceiverNoNativeCall ==
    /\ (last.op \in NullGuardedOps /\ last.args.s = NULL) =>
          /\ last.err = ShaderIsNull
          /\ last.calls = <<>>
          /\ last.events = <<>>
    /\ onlyNullOps => ~nativeTouched

\* C2 reached: Build on a nil receiver, nothing but such calls made so far.
C2_Witness ==
    /\ last.op = "Build"
    /\ last.args.s = NULL
    /\ last.err = ShaderIsNull
    /\ onlyNullOps
    /\ ~nativeTouched

\* C3 as stated: Destroy on a nil receiver makes no native destroy call.
C3_DestroyNullNoNativeCall ==
    (last.op = "Destroy" /\ last.args.s = NULL) =>
        \A i \in 1..Len(last.calls) : last.calls[i].fn # "al_destroy_shader"

\* C7: SetShaderSampler with a nil bitmap returns BitmapIsNull, which is none
\* of the bind-failure errors, and makes no native call and no allocation.
C7_NullBitmapBeforeNative ==
    (last.op = "SetShaderSampler" /\ last.args.bmp = NULL) =>
        /\ last.err = BitmapIsNull
        /\ \A n \in Names : last.err # SetError("sampler", n)
        /\ last.calls = <<>>
        /\ last.events = <<>>

\* C7 reached: the sampler binder with a nil bitmap, name al_tex, unit 1.
C7_Witness ==
    /\ last.op = "SetShaderSampler"
    /\ last.args.bmp = NULL
    /\ last.args.name = "al_tex"
    /\ last.args.unit = GoInt(0, 1)
    /\ last.err = BitmapIsNull

C9_LogAfterFailedBuild ==
    /\ (last.op = "Build" /\ last.args.s # NULL) =>
          /\ Len(last.calls) = 1
          /\ last.calls[1].fn = "al_build_shader"
          /\ last.calls[1].args.shader = last.args.s
          /\ (~last.calls[1].ans => last.err = ErrorsNew("failed to build shader"))
          /\ (last.calls[1].ans => last.err = nil)
    /\ (last.op = "Log" /\ Live(last.args.s) /\ shaders[last.args.s].built = "failed") =>
          /\ last.err = nil
          /\ Len(last.calls) = 1
          /\ last.calls[1].fn = "al_get_shader_log"
          /\ last.calls[1].args.shader = last.args.s
          /\ last.ret = GoString(shaders[last.args.s].log)
          /\ (~shaders[last.args.s].log.null /\ shaders[last.args.s].log.chars # "")
                => last.ret # ""

\* C9 reached: Log returning the diagnostic of a shader whose build failed.
C9_Witness ==
    /\ last.op = "Log"
    /\ Live(last.args.s)
    /\ shaders[last.args.s].built = "failed"
    /\ last.err = nil
    /\ last.ret = "0:1: syntax error"

====
